---- MODULE Spec2Model ----
(***************************************************************************)
(* State-machine model of merge-epg.py: the channel filter/rewriter        *)
(* (filter_channels), the source orchestrator (merge_epg_sources) and the  *)
(* run around them (main, save_xml).                                       *)
(*                                                                         *)
(* Text is modelled as a sequence of one-character strings, so that        *)
(* concatenation (prefix + id) and str() of a number are computed, not     *)
(* assumed.  An XML element is a record: its tag, its attributes as an     *)
(* ordered sequence of <<key, value>> pairs (a Python dict keeps insertion *)
(* order), and its children as a sequence of child-element names.  The     *)
(* field orig is a ghost: 0 on an input element, and on an element built   *)
(* by filter_channels the position of the input element it was built from. *)
(***************************************************************************)
EXTENDS Integers, Sequences, FiniteSets, TLC

VARIABLES
    pc,               \* position of the run
    config,           \* config['sources'] as loaded by main
    idx,              \* enumerate(..., 1) index of the source at hand
    data,             \* bytes downloaded / decompressed for the source at hand
    root,             \* parsed document of the source at hand
    filtered_root,    \* result of filter_channels for the source at hand
    merged_root,      \* children of the merged <tv> element
    total_channels,
    total_programmes,
    output,           \* children of the <tv> element written to output/guide.xml
    saves,            \* ghost: number of calls of save_xml
    origin,           \* ghost: origin[i] is the source index that appended merged_root[i]
    log               \* ghost: per processed source, how it ended and the document it parsed

vars == <<pc, config, idx, data, root, filtered_root, merged_root,
          total_channels, total_programmes, output, saves, origin, log>>

----------------------------------------------------------------------------
(* Bounds *)

MaxSources == 3

MaxElems == 3

MaxSel == 2

----------------------------------------------------------------------------
(* Python values *)

\* None, as returned by Element.get for a missing attribute: no text equals it.
None == <<"None">>

NoneStr == <<"N", "o", "n", "e">>

Digit == <<"0", "1", "2", "3", "4", "5", "6", "7", "8", "9">>

RECURSIVE NatStr(_)
NatStr(n) == IF n < 10 THEN <<Digit[n + 1]>>
             ELSE NatStr(n \div 10) \o <<Digit[(n % 10) + 1]>>

IntStr(n) == IF n < 0 THEN <<"-">> \o NatStr(0 - n) ELSE NatStr(n)

\* JSON values of the configuration: text, number, list.
JStr(s) == [t |-> "str", s |-> s, n |-> 0, items |-> <<>>]

JInt(n) == [t |-> "int", s |-> <<>>, n |-> n, items |-> <<>>]

JList(items) == [t |-> "list", s |-> <<>>, n |-> 0, items |-> items]

\* str(cid) of line 42
str(v) == IF v.t = "str" THEN v.s ELSE IntStr(v.n)

\* what an f-string makes of an attribute value (text, or None)
Fmt(x) == IF x = None THEN NoneStr ELSE x

\* str.lower() on the characters the formats use
LowerChar(c) == IF c = "G" THEN "g" ELSE IF c = "Z" THEN "z" ELSE c

lower(s) == [i \in 1..Len(s) |-> LowerChar(s[i])]

----------------------------------------------------------------------------
(* ElementTree *)

Element(tag, attrib, children) ==
    [tag |-> tag, attrib |-> attrib, children |-> children, orig |-> 0]

HasAttr(attrib, key) == \E i \in 1..Len(attrib) : attrib[i][1] = key

\* Element.get(key): the value, or None
get(attrib, key) ==
    IF HasAttr(attrib, key)
    THEN attrib[CHOOSE i \in 1..Len(attrib) : attrib[i][1] = key][2]
    ELSE None

\* Element.set(key, value): a new key goes last, a known key keeps its place
set(attrib, key, value) ==
    IF HasAttr(attrib, key)
    THEN [i \in 1..Len(attrib) |->
             IF attrib[i][1] = key THEN <<key, value>> ELSE attrib[i]]
    ELSE Append(attrib, <<key, value>>)

\* positions of the direct children of the root with the given tag, in order
RECURSIVE findallFrom(_, _, _)
findallFrom(elems, tag, i) ==
    IF i > Len(elems) THEN <<>>
    ELSE (IF elems[i].tag = tag THEN <<i>> ELSE <<>>) \o findallFrom(elems, tag, i + 1)

findall(elems, tag) == findallFrom(elems, tag, 1)

----------------------------------------------------------------------------
(* filter_channels *)

\* load_all = (channel_ids == "*")
load_all(channel_ids) == channel_ids.t = "str" /\ channel_ids.s = <<"*">>

\* [str(cid) for cid in channel_ids] raises TypeError on a value that is not iterable
Iterable(channel_ids) == channel_ids.t \in {"str", "list"}

\* channel_ids_str: the entries as text (iterating a text yields its characters)
channel_ids_str(channel_ids) ==
    IF channel_ids.t = "list"
    THEN [i \in 1..Len(channel_ids.items) |-> str(channel_ids.items[i])]
    ELSE [i \in 1..Len(channel_ids.s) |-> <<channel_ids.s[i]>>]

\* Included without str(): a number in the list matches no id
Included_nostr(channel_id, channel_ids) ==
    \/ load_all(channel_ids)
    \/ /\ channel_ids.t = "list"
       /\ \E i \in 1..Len(channel_ids.items) :
              channel_ids.items[i].t = "str" /\ channel_ids.items[i].s = channel_id

\* Included with a guard that skips an element whose attribute is missing
Included_present(channel_id, channel_ids) ==
    /\ channel_id # None
    /\ \/ load_all(channel_ids)
       \/ \E i \in 1..Len(channel_ids_str(channel_ids)) :
              channel_ids_str(channel_ids)[i] = channel_id

\* load_all or channel_id in channel_ids_str
Included(channel_id, channel_ids) ==
    \/ load_all(channel_ids)
    \/ \E i \in 1..Len(channel_ids_str(channel_ids)) :
           channel_ids_str(channel_ids)[i] = channel_id

\* PrefixedId that forgets the prefix
PrefixedId_noprefix(prefix, channel_id) == Fmt(channel_id)

\* f"{prefix}{channel_id}"
PrefixedId(prefix, channel_id) == prefix \o Fmt(channel_id)

\* CopyChildren with insert(0, child) for append(child)
CopyChildren_reversed(new_children, children) ==
    [i \in 1..Len(children) |-> children[Len(children) + 1 - i]] \o new_children

\* for child in element: new_element.append(child)
RECURSIVE CopyChildren(_, _)
CopyChildren(new_children, children) ==
    IF children = <<>> THEN new_children
    ELSE CopyChildren(Append(new_children, Head(children)), Tail(children))

\* for attr, value in programme.attrib.items(): if attr not in [...]: set(attr, value)
RECURSIVE CopyOtherAttrs(_, _)
CopyOtherAttrs(new_attrib, attrib) ==
    IF attrib = <<>> THEN new_attrib
    ELSE CopyOtherAttrs(
             IF Head(attrib)[1] \notin {"channel", "start", "stop"}
             THEN set(new_attrib, Head(attrib)[1], Head(attrib)[2])
             ELSE new_attrib,
             Tail(attrib))

\* new_channel that keeps the original id
new_channel_noprefix(channel, k, prefix) ==
    [tag      |-> "channel",
     attrib   |-> set(<<>>, "id", Fmt(get(channel.attrib, "id"))),
     children |-> CopyChildren(<<>>, channel.children),
     orig     |-> k]

new_channel(channel, k, prefix) ==
    [tag      |-> "channel",
     attrib   |-> set(<<>>, "id", PrefixedId(prefix, get(channel.attrib, "id"))),
     children |-> CopyChildren(<<>>, channel.children),
     orig     |-> k]

new_programme(programme, k, prefix) ==
    [tag      |-> "programme",
     attrib   |-> CopyOtherAttrs(
                      set(set(set(<<>>,
                          "channel", PrefixedId(prefix, get(programme.attrib, "channel"))),
                          "start", get(programme.attrib, "start")),
                          "stop", get(programme.attrib, "stop")),
                      programme.attrib),
     children |-> CopyChildren(<<>>, programme.children),
     orig     |-> k]

\* the two loops of filter_channels: positions of the elements they keep
KeptChannels(tree, channel_ids) ==
    SelectSeq(findall(tree, "channel"),
              LAMBDA i : Included(get(tree[i].attrib, "id"), channel_ids))

KeptProgrammes(tree, channel_ids) ==
    SelectSeq(findall(tree, "programme"),
              LAMBDA i : Included(get(tree[i].attrib, "channel"), channel_ids))

filter_raises(channel_ids) == ~load_all(channel_ids) /\ ~Iterable(channel_ids)

\* children of new_root: the kept channels, then the kept programmes
filter_channels(tree, channel_ids, prefix) ==
    LET kc == KeptChannels(tree, channel_ids)
        kp == KeptProgrammes(tree, channel_ids)
    IN  [j \in 1..Len(kc) |-> new_channel(tree[kc[j]], kc[j], prefix)]
        \o [j \in 1..Len(kp) |-> new_programme(tree[kp[j]], kp[j], prefix)]

----------------------------------------------------------------------------
(* Inputs: documents, selectors, prefixes, sources *)

SeqUpTo(S, n) == UNION {[1..k -> S] : k \in 0..n}

chan5 == Element("channel", << <<"id", <<"5">> >>, <<"lang", <<"e", "n">> >> >>,
                 <<"display-name", "icon">>)

chanM5 == Element("channel", << <<"id", <<"-", "5">> >> >>, <<"display-name">>)

chanNoId == Element("channel", <<>>, <<"display-name">>)

prog5 == Element("programme",
                 << <<"start", <<"1">> >>, <<"channel", <<"5">> >>,
                    <<"lang", <<"e", "n">> >>, <<"stop", <<"2">> >> >>,
                 <<"title", "desc">>)

prog10 == Element("programme",
                  << <<"channel", <<"1", "0">> >>, <<"start", <<"2">> >>,
                     <<"stop", <<"3">> >> >>,
                  <<"title">>)

progNoChan == Element("programme",
                      << <<"start", <<"1">> >>, <<"stop", <<"2">> >> >>, <<>>)

progNoStop == Element("programme",
                      << <<"channel", <<"5">> >>, <<"start", <<"3">> >> >>, <<"title">>)

note == Element("note", << <<"id", <<"5">> >> >>, <<>>)

ElemPool == {chan5, chanM5, chanNoId, prog5, prog10, progNoChan, progNoStop, note}

\* the documents filter_channels is applied to
Docs == SeqUpTo(ElemPool, MaxElems)

Wildcard == JStr(<<"*">>)

SelItems == {JStr(<<"5">>), JInt(5), JInt(10)}

\* "*", an explicit list, or a number where a list is expected
Selectors == {Wildcard, JInt(7)} \cup {JList(l) : l \in SeqUpTo(SelItems, MaxSel)}

Prefixes == {<<"a">>, <<"a", "-">>, <<"b", "-">>}

Source(name, format, channels, prefix) ==
    [name |-> name, url |-> name, format |-> format,
     channels |-> channels, prefix |-> prefix]

srcA == Source("A", <<"G", "Z">>, Wildcard, <<"a">>)

srcB == Source("B", <<"r", "a", "w">>, JList(<<JInt(5), JStr(<<"1", "0">>)>>), <<"a", "-">>)

srcC == Source("C", <<"g", "z">>, JList(<<JStr(<<"5">>), JStr(<<"-", "5">>)>>), <<"b", "-">>)

srcD == Source("D", <<"r", "a", "w">>, JInt(7), <<"a">>)

SourcePool == {srcA, srcB, srcC, srcD}

\* what sources.json can hold
Configs == SeqUpTo(SourcePool, MaxSources)

\* the documents the remote servers serve
Feeds == { <<chan5, prog5>>, <<chanM5, prog10>>, <<progNoStop, chan5, chanNoId>> }

NoData == [gz |-> FALSE, wellformed |-> FALSE, doc |-> <<>>]

\* a response body: gzip or plain, well-formed XML or not
Payloads == {[gz |-> g, wellformed |-> TRUE, doc |-> d] : g \in BOOLEAN, d \in Feeds}
            \cup {[gz |-> g, wellformed |-> FALSE, doc |-> <<>>] : g \in BOOLEAN}

----------------------------------------------------------------------------
(* The run: main, merge_epg_sources, save_xml *)

Init ==
    /\ pc = "start"
    /\ config = <<>>
    /\ idx = 0
    /\ data = NoData
    /\ root = <<>>
    /\ filtered_root = <<>>
    /\ merged_root = <<>>
    /\ total_channels = 0
    /\ total_programmes = 0
    /\ output = <<>>
    /\ saves = 0
    /\ origin = <<>>
    /\ log = <<>>

\* main: json.load succeeds; merge_epg_sources creates merged_root and enters the loop
LoadConfig ==
    /\ pc = "start"
    /\ \E c \in Configs : config' = c
    /\ pc' = "loop"
    /\ idx' = 1
    /\ merged_root' = <<>>
    /\ total_channels' = 0
    /\ total_programmes' = 0
    /\ UNCHANGED <<data, root, filtered_root, output, saves, origin, log>>

\* main: sources.json is missing or malformed; the exception leaves main
LoadConfigRaises ==
    /\ pc = "start"
    /\ pc' = "config_error"
    /\ UNCHANGED <<config, idx, data, root, filtered_root, merged_root,
                   total_channels, total_programmes, output, saves, origin, log>>

\* Except without the handler: the exception leaves merge_epg_sources and main
Except_propagate(stage) ==
    /\ pc' = "source_error"
    /\ UNCHANGED <<config, idx, data, root, filtered_root, merged_root,
                   total_channels, total_programmes, output, saves, origin, log>>

\* Except that starts the merged document afresh
Except_reset(stage) ==
    /\ pc' = "loop"
    /\ idx' = idx + 1
    /\ data' = NoData
    /\ root' = <<>>
    /\ filtered_root' = <<>>
    /\ merged_root' = <<>>
    /\ origin' = <<>>
    /\ log' = Append(log, [ok |-> FALSE, stage |-> stage, source |-> config[idx], doc |-> <<>>])
    /\ UNCHANGED <<config, total_channels, total_programmes, output, saves>>

\* except Exception as e: print; continue
Except(stage) ==
    /\ pc' = "loop"
    /\ idx' = idx + 1
    /\ data' = NoData
    /\ root' = <<>>
    /\ filtered_root' = <<>>
    /\ log' = Append(log, [ok |-> FALSE, stage |-> stage, source |-> config[idx], doc |-> <<>>])
    /\ UNCHANGED <<config, merged_root, total_channels, total_programmes,
                   output, saves, origin>>

InLoop == pc = "loop" /\ idx <= Len(config)

\* download_file returns response.content
Download ==
    /\ InLoop
    /\ \E d \in Payloads : data' = d
    /\ pc' = "downloaded"
    /\ UNCHANGED <<config, idx, root, filtered_root, merged_root, total_channels,
                   total_programmes, output, saves, origin, log>>

\* requests.get or raise_for_status raises
DownloadRaises ==
    /\ InLoop
    /\ Except("fetch")

is_gz(source) == lower(source.format) = <<"g", "z">>

\* if source['format'].lower() == 'gz': data = decompress_gz(data)
Decompress ==
    /\ pc = "downloaded"
    /\ is_gz(config[idx]) => data.gz
    /\ data' = IF is_gz(config[idx]) THEN [data EXCEPT !.gz = FALSE] ELSE data
    /\ pc' = "plain"
    /\ UNCHANGED <<config, idx, root, filtered_root, merged_root, total_channels,
                   total_programmes, output, saves, origin, log>>

\* gzip raises on bytes that are not gzip
DecompressRaises ==
    /\ pc = "downloaded"
    /\ is_gz(config[idx]) /\ ~data.gz
    /\ Except("decompress")

\* ET.fromstring parses plain, well-formed XML
parses(d) == ~d.gz /\ d.wellformed

Parse ==
    /\ pc = "plain"
    /\ parses(data)
    /\ root' = data.doc
    /\ pc' = "parsed"
    /\ UNCHANGED <<config, idx, data, filtered_root, merged_root, total_channels,
                   total_programmes, output, saves, origin, log>>

ParseRaises ==
    /\ pc = "plain"
    /\ ~parses(data)
    /\ Except("parse")

\* filtered_root = filter_channels(root, source['channels'], source['prefix'])
Filter ==
    /\ pc = "parsed"
    /\ ~filter_raises(config[idx].channels)
    /\ filtered_root' = filter_channels(root, config[idx].channels, config[idx].prefix)
    /\ pc' = "filtered"
    /\ UNCHANGED <<config, idx, data, root, merged_root, total_channels,
                   total_programmes, output, saves, origin, log>>

FilterRaises ==
    /\ pc = "parsed"
    /\ filter_raises(config[idx].channels)
    /\ Except("filter")

\* merged_root after the two append loops of lines 130-139
merge_into(merged, filtered) ==
    LET channels   == findall(filtered, "channel")
        programmes == findall(filtered, "programme")
    IN  merged \o [j \in 1..Len(channels) |-> filtered[channels[j]]]
               \o [j \in 1..Len(programmes) |-> filtered[programmes[j]]]

\* lines 130-141: append the channels, then the programmes; next source
Merge ==
    /\ pc = "filtered"
    /\ merged_root' = merge_into(merged_root, filtered_root)
    /\ total_channels' = total_channels + Len(findall(filtered_root, "channel"))
    /\ total_programmes' = total_programmes + Len(findall(filtered_root, "programme"))
    /\ origin' = origin \o [j \in 1..(Len(merged_root') - Len(merged_root)) |-> idx]
    /\ log' = Append(log, [ok |-> TRUE, stage |-> "ok", source |-> config[idx], doc |-> root])
    /\ pc' = "loop"
    /\ idx' = idx + 1
    /\ data' = NoData
    /\ root' = <<>>
    /\ filtered_root' = <<>>
    /\ UNCHANGED <<config, output, saves>>

\* the loop is exhausted: merge_epg_sources returns merged_root
Return ==
    /\ pc = "loop"
    /\ idx > Len(config)
    /\ pc' = "merged"
    /\ UNCHANGED <<config, idx, data, root, filtered_root, merged_root, total_channels,
                   total_programmes, output, saves, origin, log>>

\* ET.tostring raises TypeError on an attribute whose value is None
Serializable(elems) ==
    \A i \in 1..Len(elems) : \A j \in 1..Len(elems[i].attrib) :
        elems[i].attrib[j][2] # None

\* save_xml writes the document; main prints "All done!"
SaveXml ==
    /\ pc = "merged"
    /\ Serializable(merged_root)
    /\ output' = merged_root
    /\ saves' = saves + 1
    /\ pc' = "done"
    /\ UNCHANGED <<config, idx, data, root, filtered_root, merged_root, total_channels,
                   total_programmes, origin, log>>

\* save_xml raises: the document cannot be serialized, or the file cannot be written
SaveXmlRaises ==
    /\ pc = "merged"
    /\ saves' = saves + 1
    /\ pc' = "write_error"
    /\ UNCHANGED <<config, idx, data, root, filtered_root, merged_root, total_channels,
                   total_programmes, output, origin, log>>

Next ==
    \/ LoadConfig
    \/ LoadConfigRaises
    \/ Download
    \/ DownloadRaises
    \/ Decompress
    \/ DecompressRaises
    \/ Parse
    \/ ParseRaises
    \/ Filter
    \/ FilterRaises
    \/ Merge
    \/ Return
    \/ SaveXml
    \/ SaveXmlRaises

Spec == Init /\ [][Next]_vars

----------------------------------------------------------------------------
(* filter_channels on its own: every document, selector and prefix *)

FilterInit ==
    /\ pc = "parsed"
    /\ \E sel \in Selectors, p \in Prefixes :
           config = <<Source("F", <<"r", "a", "w">>, sel, p)>>
    /\ idx = 1
    /\ data = NoData
    /\ root \in Docs
    /\ filtered_root = <<>>
    /\ merged_root = <<>>
    /\ total_channels = 0
    /\ total_programmes = 0
    /\ output = <<>>
    /\ saves = 0
    /\ origin = <<>>
    /\ log = <<>>

FilterNext == Filter \/ FilterRaises

FilterSpec == FilterInit /\ [][FilterNext]_vars

----------------------------------------------------------------------------
(* Vocabulary of the properties *)

InLoopPcs == {"loop", "downloaded", "plain", "parsed", "filtered"}

Selector == config[1].channels

Prefix == config[1].prefix

Count(elems, tag) == Cardinality({i \in 1..Len(elems) : elems[i].tag = tag})

\* the input element an output element of filter_channels was built from
Orig(e) == root[e.orig]

RetainedAt(k) == \E j \in 1..Len(filtered_root) : filtered_root[j].orig = k

\* X equals str(c) for some entry c of the configured list, or the selector is "*"
Eligible(X) ==
    \/ Selector = Wildcard
    \/ /\ Selector.t = "list"
       /\ \E i \in 1..Len(Selector.items) :
              X = (IF Selector.items[i].t = "int"
                   THEN IntStr(Selector.items[i].n) ELSE Selector.items[i].s)

IsPrefixOf(a, b) == Len(a) <= Len(b) /\ SubSeq(b, 1, Len(a)) = a

Keys(attrib) == [i \in 1..Len(attrib) |-> attrib[i][1]]

PosOf(attrib, key) == CHOOSE i \in 1..Len(attrib) : attrib[i][1] = key

----------------------------------------------------------------------------
(* C2 *)

\* C2: a channel with id X, and a programme with channel reference X, is in the
\* output of filter_channels iff the selector is "*" or X = str(c) for an entry c
\* of the list; for a programme nothing else matters (no channel element needed).
C2_SelectorCorrectness ==
    (pc = "filtered" /\ Selector.t \in {"list", "str"}) =>
        \A k \in 1..Len(root) :
            /\ (root[k].tag = "channel" /\ HasAttr(root[k].attrib, "id")) =>
                   (RetainedAt(k) <=> Eligible(get(root[k].attrib, "id")))
            /\ (root[k].tag = "programme" /\ HasAttr(root[k].attrib, "channel")) =>
                   (RetainedAt(k) <=> Eligible(get(root[k].attrib, "channel")))

\* a list with a number in it keeps a programme whose channel has no channel
\* element in the document, and drops a channel that is not listed
C2_Witness ==
    /\ pc = "filtered"
    /\ Selector.t = "list"
    /\ \E i \in 1..Len(Selector.items) : Selector.items[i].t = "int"
    /\ \E k \in 1..Len(root) :
           /\ root[k].tag = "programme" /\ RetainedAt(k)
           /\ \A c \in 1..Len(root) :
                  root[c].tag = "channel" =>
                      get(root[c].attrib, "id") # get(root[k].attrib, "channel")
    /\ \E k \in 1..Len(root) :
           root[k].tag = "channel" /\ HasAttr(root[k].attrib, "id") /\ ~RetainedAt(k)

----------------------------------------------------------------------------
(* C3 *)

OutChannelWithId(id) ==
    \E i \in 1..Len(filtered_root) :
        filtered_root[i].tag = "channel" /\ get(filtered_root[i].attrib, "id") = id

\* C3 as claimed: every programme in the output of filter_channels refers to a
\* channel element of the same output.
C3_EveryProgrammeHasChannel ==
    pc = "filtered" =>
        \A j \in 1..Len(filtered_root) :
            filtered_root[j].tag = "programme" =>
                OutChannelWithId(get(filtered_root[j].attrib, "channel"))

\* C3 as amended: every programme in the output has channel = prefix + its
\* original channel reference, and that is the id of a channel element of the
\* same output whenever the input has a channel element with that original id.
C3_ReferentialConsistency ==
    pc = "filtered" =>
        \A j \in 1..Len(filtered_root) :
            filtered_root[j].tag = "programme" =>
                LET ref == get(Orig(filtered_root[j]).attrib, "channel")
                    new == get(filtered_root[j].attrib, "channel")
                IN  /\ new = Prefix \o Fmt(ref)
                    /\ (\E k \in 1..Len(root) :
                            root[k].tag = "channel" /\ get(root[k].attrib, "id") = ref)
                       => OutChannelWithId(new)

\* a retained programme whose channel element is in the input, under a list
C3_Witness ==
    /\ pc = "filtered"
    /\ Selector.t = "list"
    /\ \E j \in 1..Len(filtered_root) :
           /\ filtered_root[j].tag = "programme"
           /\ \E k \in 1..Len(root) :
                  /\ root[k].tag = "channel"
                  /\ get(root[k].attrib, "id") = get(Orig(filtered_root[j]).attrib, "channel")

----------------------------------------------------------------------------
(* C6 *)

\* C6 as claimed: under every selector, filter_channels leaves out a channel
\* without an id attribute and a programme without a channel attribute.
C6_MissingAttributeExcluded ==
    pc = "filtered" =>
        \A j \in 1..Len(filtered_root) :
            /\ filtered_root[j].tag = "channel" =>
                   HasAttr(Orig(filtered_root[j]).attrib, "id")
            /\ filtered_root[j].tag = "programme" =>
                   HasAttr(Orig(filtered_root[j]).attrib, "channel")

----------------------------------------------------------------------------
(* C7 *)

SameChildren ==
    \A j \in 1..Len(filtered_root) :
        filtered_root[j].children = Orig(filtered_root[j]).children

\* keys that both elements carry come in the same relative order in both
SameRelativeOrder(old, new) ==
    \A a, b \in {old[i][1] : i \in 1..Len(old)} \cap {new[i][1] : i \in 1..Len(new)} :
        (PosOf(old, a) < PosOf(old, b)) <=> (PosOf(new, a) < PosOf(new, b))

\* C7 as claimed: a retained element keeps the relative order of its attributes
\* and the order of its children.
C7_OrderPreserved ==
    pc = "filtered" =>
        /\ SameChildren
        /\ \A j \in 1..Len(filtered_root) :
               SameRelativeOrder(Orig(filtered_root[j]).attrib, filtered_root[j].attrib)

OtherAttrs(attrib) == SelectSeq(attrib, LAMBDA a : a[1] \notin {"channel", "start", "stop"})

\* C7 as amended: a retained element keeps the order of its children; an output
\* channel carries the attribute id only; an output programme carries channel,
\* start, stop in that order (start and stop as in the input, None when
\* missing) and then its other attributes, verbatim, in their input order.
C7_OrderAsBuilt ==
    pc = "filtered" =>
        /\ SameChildren
        /\ \A j \in 1..Len(filtered_root) :
               LET old == Orig(filtered_root[j]).attrib
                   new == filtered_root[j].attrib
               IN  /\ filtered_root[j].tag = "channel" => Keys(new) = <<"id">>
                   /\ filtered_root[j].tag = "programme" =>
                          /\ Keys(SubSeq(new, 1, 3)) = <<"channel", "start", "stop">>
                          /\ new[2][2] = get(old, "start")
                          /\ new[3][2] = get(old, "stop")
                          /\ SubSeq(new, 4, Len(new)) = OtherAttrs(old)

\* a retained programme with two children, an attribute before channel and one
\* that is none of channel, start, stop
C7_Witness ==
    /\ pc = "filtered"
    /\ \E j \in 1..Len(filtered_root) :
           /\ filtered_root[j].tag = "programme"
           /\ Len(filtered_root[j].children) >= 2
           /\ Len(filtered_root[j].attrib) >= 4
           /\ Orig(filtered_root[j]).attrib[1][1] # "channel"

----------------------------------------------------------------------------
(* C9 *)

\* C9: filter_channels puts out at most as many channels and programmes as the
\* input has, exactly as many under "*", each built from an input element of its
\* kind, and no input element twice.
C9_CountConservation ==
    pc = "filtered" =>
        /\ Count(filtered_root, "channel") <= Count(root, "channel")
        /\ Count(filtered_root, "programme") <= Count(root, "programme")
        /\ Selector = Wildcard =>
               /\ Count(filtered_root, "channel") = Count(root, "channel")
               /\ Count(filtered_root, "programme") = Count(root, "programme")
        /\ \A j \in 1..Len(filtered_root) :
               /\ filtered_root[j].orig \in 1..Len(root)
               /\ Orig(filtered_root[j]).tag = filtered_root[j].tag
               /\ filtered_root[j].tag \in {"channel", "programme"}
        /\ \A i, j \in 1..Len(filtered_root) :
               filtered_root[i].orig = filtered_root[j].orig => i = j

\* "*" on a document with a channel that has no id and with the same programme twice
C9_Witness ==
    /\ pc = "filtered"
    /\ Selector = Wildcard
    /\ \E k \in 1..Len(root) : root[k].tag = "channel" /\ ~HasAttr(root[k].attrib, "id")
    /\ \E k, l \in 1..Len(root) : k # l /\ root[k] = root[l] /\ root[k].tag = "programme"
    /\ Len(filtered_root) = Len(root)

----------------------------------------------------------------------------
(* C1 *)

Succeeded == SelectSeq(log, LAMBDA e : e.ok)

\* merge_epg_sources run on the given sources alone, each serving its document
RECURSIVE MergeOnly(_)
MergeOnly(entries) ==
    IF entries = <<>> THEN <<>>
    ELSE filter_channels(Head(entries).doc, Head(entries).source.channels,
                         Head(entries).source.prefix)
         \o MergeOnly(Tail(entries))

\* C1: a source that fails at fetch, decompress, parse or filter contributes
\* nothing, the merged document is the one the succeeding sources alone produce,
\* in their order, and the run goes on to the remaining sources: it leaves the
\* loop only when every configured source was processed or skipped.
C1_FailureIsolation ==
    /\ merged_root = MergeOnly(Succeeded)
    /\ \A i \in 1..Len(log) : ~log[i].ok => \A p \in 1..Len(origin) : origin[p] # i
    /\ total_channels = Count(merged_root, "channel")
    /\ total_programmes = Count(merged_root, "programme")
    /\ pc \in InLoopPcs => Len(log) = idx - 1
    /\ pc \notin InLoopPcs \cup {"start", "config_error"} => Len(log) = Len(config)

\* source 2 of 3 fails in filter_channels, after its document was parsed;
\* sources 1 and 3 both contribute and the document is written
C1_Witness ==
    /\ pc = "done"
    /\ Len(log) = 3
    /\ log[1].ok /\ ~log[2].ok /\ log[3].ok
    /\ log[2].stage = "filter"
    /\ \E p, q \in 1..Len(origin) : origin[p] = 1 /\ origin[q] = 3

----------------------------------------------------------------------------
(* C4 *)

\* C4 as claimed: in the merged document every channel element precedes every
\* programme element.
C4_ChannelsBeforeProgrammes ==
    pc \in {"merged", "done"} =>
        \A i, j \in 1..Len(merged_root) :
            (merged_root[i].tag = "programme" /\ merged_root[j].tag = "channel") => j < i

----------------------------------------------------------------------------
(* C5 *)

NoCollision ==
    \A p, q \in 1..Len(merged_root) :
        (/\ merged_root[p].tag = "channel"
         /\ merged_root[q].tag = "channel"
         /\ origin[p] # origin[q])
        => get(merged_root[p].attrib, "id") # get(merged_root[q].attrib, "id")

\* C5 as claimed: with pairwise different prefixes, channel ids contributed by
\* different sources never coincide.
C5_DistinctPrefixesNoCollision ==
    (\A i, j \in 1..Len(config) : i # j => config[i].prefix # config[j].prefix)
        => NoCollision

\* C5 as amended: when no source's prefix is an initial segment of another
\* source's prefix, channel ids contributed by different sources never coincide.
C5_PrefixFreeNoCollision ==
    (\A i, j \in 1..Len(config) :
         i # j => ~IsPrefixOf(config[i].prefix, config[j].prefix))
        => NoCollision

\* two sources with prefixes a- and b- both contribute the channel with id 5
C5_Witness ==
    /\ pc = "done"
    /\ \A i, j \in 1..Len(config) :
           i # j => ~IsPrefixOf(config[i].prefix, config[j].prefix)
    /\ \E p, q \in 1..Len(merged_root) :
           /\ origin[p] # origin[q]
           /\ get(merged_root[p].attrib, "id") = config[origin[p]].prefix \o <<"5">>
           /\ get(merged_root[q].attrib, "id") = config[origin[q]].prefix \o <<"5">>

----------------------------------------------------------------------------
(* C8 *)

Outcome ==
    IF pc = "done" THEN "completed"
    ELSE IF pc \in {"config_error", "write_error"} THEN "failed"
    ELSE "running"

\* C8 as claimed: all sources failing does not keep the run from ending
\* "completed"; a run with zero configured sources, and a run whose
\* configuration failed to load, do not end "completed".
C8_OutcomeDistinguished ==
    /\ (pc = "merged" /\ \A i \in 1..Len(log) : ~log[i].ok) => ENABLED SaveXml
    /\ (pc \in {"done", "write_error"} /\ Len(config) = 0) => Outcome # "completed"
    /\ pc = "config_error" => Outcome # "completed"

----------------------------------------------------------------------------
(* C10 *)

\* C10: every step leaves the elements already in the merged document in place
\* (also a step that skips a failing source); sources end one by one in the
\* configured order, the next one starting only then; save_xml is called once,
\* after the last source, and writes the merged document.
C10_GrowsThenSavedOnce ==
    [][ /\ IsPrefixOf(merged_root, merged_root')
        /\ IsPrefixOf(origin, origin')
        /\ log' # log =>
               /\ Len(log') = Len(log) + 1
               /\ SubSeq(log', 1, Len(log)) = log
               /\ log'[Len(log')].source = config[Len(log')]
               /\ idx = Len(log')
               /\ idx' = idx + 1
        /\ pc' = "downloaded" => (pc = "loop" /\ Len(log) = idx - 1 /\ idx' = idx)
        /\ Len(merged_root') > Len(merged_root) => log' # log
        /\ saves' # saves =>
               /\ saves = 0 /\ saves' = 1
               /\ pc = "merged"
               /\ Len(log) = Len(config)
        /\ pc' = "done" => (saves' = 1 /\ output' = merged_root')
      ]_vars

\* the document was written after a source contributed and a later one failed
C10_Witness ==
    /\ pc = "done"
    /\ saves = 1
    /\ output = merged_root
    /\ \E i, j \in 1..Len(log) : i < j /\ log[i].ok /\ ~log[j].ok /\ log[i].doc # <<>>
    /\ Len(merged_root) > 0

====
